---- MODULE Spec2Model ----
(***************************************************************************)
(* Model of scripts/convert_icons.py: main schedules up to two conversion  *)
(* tasks; convert_folder collects the square PNG files of a source folder  *)
(* (load_square_pngs) and serializes them into an ICO container            *)
(* (write_ico).                                                            *)
(*                                                                         *)
(* Python integers are unbounded, while the model checker's are not, so a  *)
(* byte count is kept as a pair of limbs [hi, lo] in base 2^16: its value  *)
(* is hi * 2^16 + lo.                                                      *)
(***************************************************************************)
EXTENDS Integers, Sequences, FiniteSets, TLC

VARIABLES args, tasks, cur, pc, status, folder, todo, size_map, images, fs

vars == <<args, tasks, cur, pc, status, folder, todo, size_map, images, fs>>

(* Largest number of *.png files a source folder holds. *)
MaxFiles == 3

(***************************************************************************)
(* Unbounded byte counts (len(frame.data), offset).                        *)
(***************************************************************************)
Limb == 65536

Big(n) == [hi |-> n \div Limb, lo |-> n % Limb]

BigAdd(a, b) ==
    [hi |-> a.hi + b.hi + ((a.lo + b.lo) \div Limb), lo |-> (a.lo + b.lo) % Limb]

(***************************************************************************)
(* The PNG files a folder may hold.  A file is its bytes: the decoder      *)
(* reads the size and the mode out of them, and len is their count.        *)
(***************************************************************************)
PngFiles ==
    { [id |-> "a", width |-> 16,  height |-> 16,  mode |-> "RGBA", len |-> Big(50)],
      [id |-> "b", width |-> 16,  height |-> 16,  mode |-> "RGB",
       len |-> [hi |-> 65535, lo |-> 65436]],
      [id |-> "c", width |-> 256, height |-> 256, mode |-> "RGBA", len |-> Big(120)],
      [id |-> "d", width |-> 256, height |-> 256, mode |-> "L",
       len |-> [hi |-> 65536, lo |-> 0]],
      [id |-> "e", width |-> 512, height |-> 512, mode |-> "RGB",  len |-> Big(70)],
      [id |-> "f", width |-> 32,  height |-> 16,  mode |-> "RGBA", len |-> Big(50)],
      [id |-> "g", width |-> 512, height |-> 512, mode |-> "LA",
       len |-> [hi |-> 65535, lo |-> 65236]] }

Names == 1..MaxFiles

(* A source folder: missing, or a mapping from *.png file names (numbered  *)
(* in the order sorted() gives them) to file contents.                     *)
NoFiles == [n \in {} |-> 0]

Folders ==
    {[exists |-> FALSE, files |-> NoFiles]} \cup
    {[exists |-> TRUE, files |-> f] : f \in UNION {[S -> PngFiles] : S \in SUBSET Names}}

(***************************************************************************)
(* Pillow.                                                                 *)
(***************************************************************************)
Bands(mode) ==
    CASE mode = "RGBA" -> <<"R", "G", "B", "A">>
      [] mode = "RGB"  -> <<"R", "G", "B">>
      [] mode = "LA"   -> <<"L", "A">>
      [] mode = "L"    -> <<"L">>

InSeq(x, s) == \E k \in 1..Len(s) : s[k] = x

(* Image.open(png_path): the decoded image of a file. *)
ImageOpen(file) == [width |-> file.width, height |-> file.height, mode |-> file.mode]

(* img.convert("RGBA"): same size, mode RGBA whatever the source mode. *)
ConvertRGBA(img) == [width |-> img.width, height |-> img.height, mode |-> "RGBA"]

(***************************************************************************)
(* load_square_pngs                                                        *)
(***************************************************************************)
RECURSIVE SortedNames(_)
(* sorted(folder.glob("*.png")) *)
SortedNames(S) ==
    IF S = {} THEN <<>>
    ELSE LET m == CHOOSE x \in S : \A y \in S : x <= y
         IN  <<m>> \o SortedNames(S \ {m})

(* As IsSquare, comparing the width with itself. *)
IsSquareWidthOnly(image) == image.width = image.width

(* The test the scan skips a file on, negated. *)
IsSquare(image) == image.width = image.height

KeyOf(image) == <<image.width, image.height>>

BitCount(image) == IF InSeq("A", Bands(image.mode)) THEN 32 ELSE 24

MakeFrame(image, file) ==
    [width |-> image.width, height |-> image.height,
     bit_count |-> BitCount(image), data |-> file]

(* size_map[key] = frame *)
MapPut(m, key, frame) ==
    [k \in DOMAIN m \cup {key} |-> IF k = key THEN frame ELSE m[k]]

(* As KeyLess, in descending order. *)
KeyGreater(a, b) == a[1] > b[1] \/ (a[1] = b[1] /\ a[2] > b[2])

(* Python's order on (width, height) tuples. *)
KeyLess(a, b) == a[1] < b[1] \/ (a[1] = b[1] /\ a[2] < b[2])

RECURSIVE SortedKeys(_)
(* sorted(size_map.keys()) *)
SortedKeys(S) ==
    IF S = {} THEN <<>>
    ELSE LET m == CHOOSE x \in S : \A y \in S \ {x} : KeyLess(x, y)
         IN  <<m>> \o SortedKeys(S \ {m})

(* [size_map[key] for key in sorted(size_map.keys())] *)
FrameList(m) ==
    LET ks == SortedKeys(DOMAIN m) IN [k \in 1..Len(ks) |-> m[ks[k]]]

(***************************************************************************)
(* write_ico                                                               *)
(***************************************************************************)
(* Count of the elements of the sorted list t that do not exceed width w. *)
UpTo(t, w) == Cardinality({k \in 1..Len(t) : t[k].width <= w})

RECURSIVE SortByWidth(_)
(* sorted(images, key=lambda frame: frame.width): a stable sort. *)
SortByWidth(s) ==
    IF Len(s) = 0 THEN <<>>
    ELSE LET x == s[Len(s)]
             t == SortByWidth(SubSeq(s, 1, Len(s) - 1))
             k == UpTo(t, x.width)
         IN  SubSeq(t, 1, k) \o <<x>> \o SubSeq(t, k + 1, Len(t))

(* struct.pack accepts a value only when it fits its field: B, H, I. *)
FitsB(n) == n >= 0 /\ n < 256
FitsH(n) == n >= 0 /\ n < Limb
(* As FitsI, were a value too large for 32 bits truncated, not refused. *)
FitsIWraps(b) == b.hi >= 0

FitsI(b) == b.hi < Limb

(* Little-endian fields. *)
PackB(n) == <<n>>
PackH(n) == <<n % 256, n \div 256>>
PackI(b) == <<b.lo % 256, b.lo \div 256, b.hi % 256, (b.hi \div 256) % 256>>

(* As WidthByte, clamping to the largest byte instead of writing 0. *)
WidthByteClamped(frame) == IF frame.width < 256 THEN frame.width ELSE 255

WidthByte(frame) == IF frame.width < 256 THEN frame.width ELSE 0
HeightByte(frame) == IF frame.height < 256 THEN frame.height ELSE 0

(* struct.pack("<HHH", 0, 1, len(ordered)) *)
PackHeader(n) == PackH(0) \o PackH(1) \o PackH(n)

(* struct.pack("<BBBBHHII", ...) of one frame *)
PackEntry(frame, offset) ==
    PackB(WidthByte(frame)) \o PackB(HeightByte(frame)) \o PackB(0) \o PackB(0) \o
    PackH(1) \o PackH(frame.bit_count) \o PackI(frame.data.len) \o PackI(offset)

EntryFits(frame, offset) ==
    /\ FitsB(WidthByte(frame)) /\ FitsB(HeightByte(frame))
    /\ FitsH(frame.bit_count)
    /\ FitsI(frame.data.len) /\ FitsI(offset)

(* As FirstOffset, with the 6 bytes of the header forgotten. *)
FirstOffsetNoHeader(n) == Big(16 * n)

(* offset = 6 + 16 * len(ordered) *)
FirstOffset(n) == Big(6 + 16 * n)

RECURSIVE PackDirectory(_, _)
(* The loop over ordered: one entry each, offset += len(frame.data). *)
PackDirectory(frames, offset) ==
    IF Len(frames) = 0 THEN <<>>
    ELSE PackEntry(Head(frames), offset) \o
         PackDirectory(Tail(frames), BigAdd(offset, Head(frames).data.len))

RECURSIVE DirectoryFits(_, _)
DirectoryFits(frames, offset) ==
    IF Len(frames) = 0 THEN TRUE
    ELSE /\ EntryFits(Head(frames), offset)
         /\ DirectoryFits(Tail(frames), BigAdd(offset, Head(frames).data.len))

(* No struct.pack of write_ico raises struct.error. *)
PackFits(ordered) ==
    FitsH(Len(ordered)) /\ DirectoryFits(ordered, FirstOffset(Len(ordered)))

(* The bytes written: header, then every chunk of data_chunks. *)
IcoFile(ordered) ==
    [header |-> PackHeader(Len(ordered)) \o
                PackDirectory(ordered, FirstOffset(Len(ordered))),
     chunks |-> [k \in 1..Len(ordered) |-> ordered[k].data]]

(***************************************************************************)
(* The file system under ROOT.  A path is its sequence of components.      *)
(***************************************************************************)
DEFAULT_OUTPUT_DIR == <<"installer", "assets">>
DEFAULT_APPICON_DEST == DEFAULT_OUTPUT_DIR \o <<"Clop.ico">>
DEFAULT_CLOP_DEST == DEFAULT_OUTPUT_DIR \o <<"ClopMark.ico">>
DEFAULT_APPICON_SRC == <<"src", "App", "Assets", "Brand", "Assets.xcassets", "AppIcon.appiconset">>
DEFAULT_CLOP_SRC == <<"src", "App", "Assets", "Brand", "Assets.xcassets", "clop.imageset">>

Parent(path) == SubSeq(path, 1, Len(path) - 1)

(* destination.parent.mkdir(parents=True, exist_ok=True) *)
Mkdir(dirs, dir) == dirs \cup {SubSeq(dir, 1, k) : k \in 1..Len(dir)}

(* destination.open("wb") and the writes *)
WriteFile(files, path, content) ==
    [p \in DOMAIN files \cup {path} |-> IF p = path THEN content ELSE files[p]]

(***************************************************************************)
(* State.                                                                  *)
(*   args      the parsed command line (skip flags; paths keep defaults)   *)
(*   tasks     main's list of (source, destination)                        *)
(*   cur       index of the task main's loop is at                         *)
(*   pc        main / convert / scan / wrote / done / exit / crashed       *)
(*   status    per task: pending, ok, or the exception it raised           *)
(*   folder    the source folder of the current task as found on disk      *)
(*   todo      the sorted file names the scan has not visited yet          *)
(*   size_map  load_square_pngs' mapping (width, height) -> frame          *)
(*   images    the list load_square_pngs returned to convert_folder        *)
(*   fs        the directories made and the files written                  *)
(***************************************************************************)
NoFolder == [exists |-> FALSE, files |-> NoFiles]

Init ==
    /\ args \in [skip_appicon : BOOLEAN, skip_clop : BOOLEAN]
    /\ tasks = <<>>
    /\ cur = 0
    /\ pc = "main"
    /\ status = <<>>
    /\ folder = NoFolder
    /\ todo = <<>>
    /\ size_map = NoFiles
    /\ images = <<>>
    /\ fs = [dirs |-> {}, files |-> NoFiles]

(* main, up to its loop: the tasks the flags leave, or SystemExit. *)
Schedule ==
    /\ pc = "main"
    /\ LET t == (IF args.skip_appicon THEN <<>>
                 ELSE <<[source |-> DEFAULT_APPICON_SRC,
                         destination |-> DEFAULT_APPICON_DEST]>>) \o
                (IF args.skip_clop THEN <<>>
                 ELSE <<[source |-> DEFAULT_CLOP_SRC,
                         destination |-> DEFAULT_CLOP_DEST]>>)
       IN  /\ tasks' = t
           /\ status' = [k \in 1..Len(t) |-> "pending"]
           /\ IF t = <<>> THEN pc' = "exit" /\ cur' = 0
                          ELSE pc' = "convert" /\ cur' = 1
    /\ UNCHANGED <<args, folder, todo, size_map, images, fs>>

(* As Raise, were the exception caught in main's loop, which then went on  *)
(* to the next task.                                                       *)
RaiseCaught(e) ==
    /\ status' = [status EXCEPT ![cur] = e]
    /\ IF cur < Len(tasks) THEN pc' = "convert" /\ cur' = cur + 1
                           ELSE pc' = "done" /\ cur' = cur

(* An exception nobody catches: it leaves convert_folder, main's loop and  *)
(* main, and the interpreter exits.                                        *)
Raise(e) ==
    /\ status' = [status EXCEPT ![cur] = e]
    /\ pc' = "crashed"
    /\ cur' = cur

(* convert_folder prints "Wrote" and returns, its locals are gone; main's  *)
(* loop takes the next task, if any.                                       *)
Return ==
    /\ pc = "wrote"
    /\ status' = [status EXCEPT ![cur] = "ok"]
    /\ IF cur < Len(tasks) THEN pc' = "convert" /\ cur' = cur + 1
                           ELSE pc' = "done" /\ cur' = cur
    /\ folder' = NoFolder
    /\ todo' = <<>>
    /\ size_map' = NoFiles
    /\ images' = <<>>
    /\ UNCHANGED <<args, tasks, fs>>

(* convert_folder calls load_square_pngs on a folder that does not exist. *)
MissingSource ==
    /\ pc = "convert"
    /\ \E f \in Folders :
        /\ ~f.exists
        /\ folder' = f
    /\ todo' = <<>>
    /\ size_map' = NoFiles
    /\ images' = <<>>
    /\ Raise("FileNotFoundError")
    /\ UNCHANGED <<args, tasks, fs>>

(* convert_folder calls load_square_pngs on an existing folder: the scan   *)
(* starts on the sorted listing with an empty size_map.                    *)
BeginScan ==
    /\ pc = "convert"
    /\ \E f \in Folders :
        /\ f.exists
        /\ folder' = f
        /\ todo' = SortedNames(DOMAIN f.files)
    /\ size_map' = NoFiles
    /\ images' = <<>>
    /\ pc' = "scan"
    /\ UNCHANGED <<args, tasks, cur, status, fs>>

(* One iteration of the scan on a square file. *)
ScanSquare ==
    /\ pc = "scan"
    /\ todo # <<>>
    /\ LET file == folder.files[Head(todo)]
           image == ConvertRGBA(ImageOpen(file))
       IN  /\ IsSquare(image)
           /\ size_map' = MapPut(size_map, KeyOf(image), MakeFrame(image, file))
    /\ todo' = Tail(todo)
    /\ UNCHANGED <<args, tasks, cur, pc, status, folder, images, fs>>

(* As SkipAsset, were a non-square file an error. *)
SkipAssetRaises ==
    /\ size_map' = size_map
    /\ todo' = todo
    /\ Raise("ValueError")

(* What the scan does with a non-square file: print, continue. *)
SkipAsset ==
    /\ size_map' = size_map
    /\ todo' = Tail(todo)
    /\ UNCHANGED <<cur, pc, status>>

(* One iteration of the scan on a non-square file. *)
ScanNonSquare ==
    /\ pc = "scan"
    /\ todo # <<>>
    /\ LET image == ConvertRGBA(ImageOpen(folder.files[Head(todo)]))
       IN  ~IsSquare(image)
    /\ SkipAsset
    /\ UNCHANGED <<args, tasks, folder, images, fs>>

(* As EmptyFrameSet, were the parent directory made before the frames     *)
(* are collected.                                                          *)
EmptyFrameSetAfterMkdir ==
    /\ pc = "scan"
    /\ todo = <<>>
    /\ DOMAIN size_map = {}
    /\ Raise("ValueError")
    /\ fs' = [fs EXCEPT !.dirs = Mkdir(fs.dirs, Parent(tasks[cur].destination))]
    /\ UNCHANGED <<args, tasks, folder, todo, size_map, images>>

(* The scan is over and size_map is empty. *)
EmptyFrameSet ==
    /\ pc = "scan"
    /\ todo = <<>>
    /\ DOMAIN size_map = {}
    /\ Raise("ValueError")
    /\ UNCHANGED <<args, tasks, folder, todo, size_map, images, fs>>

(* load_square_pngs returns, write_ico makes the parent directory, packs   *)
(* header and directory, and writes the file.                              *)
WriteIco ==
    /\ pc = "scan"
    /\ todo = <<>>
    /\ DOMAIN size_map # {}
    /\ LET list == FrameList(size_map)
           ordered == SortByWidth(list)
           dest == tasks[cur].destination
       IN  /\ images' = list
           /\ PackFits(ordered)
           /\ fs' = [dirs |-> Mkdir(fs.dirs, Parent(dest)),
                     files |-> WriteFile(fs.files, dest, IcoFile(ordered))]
    /\ pc' = "wrote"
    /\ UNCHANGED <<args, tasks, cur, status, folder, todo, size_map>>

(* As WriteIco, but a struct.pack raises struct.error: the parent          *)
(* directory is made, the file is never opened.                            *)
WriteIcoStructError ==
    /\ pc = "scan"
    /\ todo = <<>>
    /\ DOMAIN size_map # {}
    /\ LET list == FrameList(size_map)
           ordered == SortByWidth(list)
           dest == tasks[cur].destination
       IN  /\ images' = list
           /\ ~PackFits(ordered)
           /\ fs' = [fs EXCEPT !.dirs = Mkdir(fs.dirs, Parent(dest))]
    /\ Raise("struct.error")
    /\ UNCHANGED <<args, tasks, folder, todo, size_map>>

Next ==
    \/ Schedule
    \/ MissingSource
    \/ BeginScan
    \/ ScanSquare
    \/ ScanNonSquare
    \/ EmptyFrameSet
    \/ WriteIco
    \/ WriteIcoStructError
    \/ Return

Spec == Init /\ [][Next]_vars

(***************************************************************************)
(* Reading a container back, as a consumer of the ICO format does.         *)
(* Positions are byte offsets from the start of the file.                  *)
(***************************************************************************)
RdB(h, p) == h[p + 1]
RdH(h, p) == h[p + 1] + 256 * h[p + 2]
RdI(h, p) == [hi |-> h[p + 3] + 256 * h[p + 4], lo |-> h[p + 1] + 256 * h[p + 2]]

(* The ICO convention for the one-byte dimensions: 0 stands for 256. *)
ReadDim(b) == IF b = 0 THEN 256 ELSE b

TaskIds == 1..Len(tasks)
Dest(j) == tasks[j].destination
Written(j) == Dest(j) \in DOMAIN fs.files
Ico(j) == fs.files[Dest(j)]

(* The sum of the lengths of the first k payloads of a container. *)
RECURSIVE SumLens(_, _)
SumLens(chunks, k) ==
    IF k = 0 THEN Big(0) ELSE BigAdd(SumLens(chunks, k - 1), chunks[k].len)

(* The exceptions of frame collection. *)
CollectionFailures == {"FileNotFoundError", "ValueError"}

(* The names of the square files of the current source folder. *)
SquareNames == {n \in DOMAIN folder.files : folder.files[n].width = folder.files[n].height}

(* The distinct resolutions among the square files. *)
Resolutions == {<<folder.files[n].width, folder.files[n].height>> : n \in SquareNames}

(* The alpha channel of a source image, as its own mode has it. *)
SourceHasAlpha(file) == InSeq("A", Bands(file.mode))

(***************************************************************************)
(* C1.  In every container written, the payload offset of directory entry  *)
(* k is 6 + 16*N plus the lengths of the payloads 0..k-1: the first        *)
(* payload starts right after the directory, which is 6 + 16*N bytes       *)
(* long, and the payloads follow one another without gap.                  *)
(***************************************************************************)
C1_OffsetsContiguous ==
    \A j \in TaskIds : Written(j) =>
        LET f == Ico(j)
            N == Len(f.chunks)
        IN  /\ Len(f.header) = 6 + 16 * N
            /\ \A k \in 0..(N - 1) :
                 RdI(f.header, 18 + 16 * k) = BigAdd(Big(6 + 16 * N), SumLens(f.chunks, k))

(* A container of three frames whose payloads differ in length. *)
C1_Witness ==
    \E j \in TaskIds :
        /\ Written(j)
        /\ Len(Ico(j).chunks) = 3
        /\ Ico(j).chunks[1].len # Ico(j).chunks[2].len

(***************************************************************************)
(* C2 as claimed.  When the run is over and a task failed in frame         *)
(* collection, every other scheduled task has been converted and its       *)
(* output is written.                                                      *)
(***************************************************************************)
C2_FailureIsolated ==
    \A j \in TaskIds :
        (pc \in {"done", "crashed"} /\ status[j] \in CollectionFailures) =>
            \A k \in TaskIds \ {j} : status[k] # "pending" /\ (status[k] = "ok" => Written(k))

(***************************************************************************)
(* C2 as amended.  A failure of frame collection ends the whole run: the   *)
(* tasks scheduled before the failing one are converted and written, the   *)
(* tasks scheduled after it are never started and have no output.          *)
(***************************************************************************)
C2_FailureEndsBatch ==
    \A j \in TaskIds : status[j] \in CollectionFailures =>
        /\ pc = "crashed"
        /\ cur = j
        /\ \A k \in TaskIds : k < j => status[k] = "ok" /\ Written(k)
        /\ \A k \in TaskIds : k > j => status[k] = "pending" /\ ~Written(k)

(* Two tasks scheduled, the first one failed in frame collection. *)
C2_Witness ==
    /\ Len(tasks) = 2
    /\ status[1] \in CollectionFailures

(***************************************************************************)
(* C3.  Every frame collected has bit depth 32 when its source image has   *)
(* an alpha channel and 24 when it has none.                               *)
(***************************************************************************)
C3_BitDepthFollowsAlpha ==
    \A key \in DOMAIN size_map :
        size_map[key].bit_count = IF SourceHasAlpha(size_map[key].data) THEN 32 ELSE 24

(***************************************************************************)
(* C4 as claimed.  In every directory entry the width byte is the width    *)
(* when below 256 and 0 otherwise, the same for the height, and for a      *)
(* frame of width or height 256 or more, reading the byte 0 as 256 gives   *)
(* the true dimension.                                                     *)
(***************************************************************************)
C4_DimensionRoundTrip ==
    \A j \in TaskIds : Written(j) =>
        LET f == Ico(j) IN
        \A k \in 0..(Len(f.chunks) - 1) :
            LET w == f.chunks[k + 1].width
                h == f.chunks[k + 1].height
                wb == RdB(f.header, 6 + 16 * k)
                hb == RdB(f.header, 7 + 16 * k)
            IN  /\ wb = (IF w < 256 THEN w ELSE 0)
                /\ hb = (IF h < 256 THEN h ELSE 0)
                /\ w >= 256 => ReadDim(wb) = w
                /\ h >= 256 => ReadDim(hb) = h

(***************************************************************************)
(* C4 as amended.  The byte rule as claimed; reading the byte 0 as 256     *)
(* gives the true dimension for a dimension of at most 256, and gives 256, *)
(* which is not the true dimension, for a larger one.                      *)
(***************************************************************************)
C4_DimensionBytes ==
    \A j \in TaskIds : Written(j) =>
        LET f == Ico(j) IN
        \A k \in 0..(Len(f.chunks) - 1) :
            LET w == f.chunks[k + 1].width
                h == f.chunks[k + 1].height
                wb == RdB(f.header, 6 + 16 * k)
                hb == RdB(f.header, 7 + 16 * k)
            IN  /\ wb = (IF w < 256 THEN w ELSE 0)
                /\ hb = (IF h < 256 THEN h ELSE 0)
                /\ w <= 256 => ReadDim(wb) = w
                /\ h <= 256 => ReadDim(hb) = h
                /\ w > 256 => ReadDim(wb) = 256
                /\ h > 256 => ReadDim(hb) = 256

(* A container with a frame of exactly 256 and a frame below 256. *)
C4_Witness ==
    \E j \in TaskIds :
        /\ Written(j)
        /\ \E k \in 1..Len(Ico(j).chunks) : Ico(j).chunks[k].width = 256
        /\ \E k \in 1..Len(Ico(j).chunks) : Ico(j).chunks[k].width < 256

(***************************************************************************)
(* C5.  A task that failed in frame collection has no output file, and     *)
(* its parent directory exists only if the write_ico of another task made  *)
(* it: the failing task itself touched neither.                            *)
(***************************************************************************)
C5_NoOutputOnCollectionFailure ==
    \A j \in TaskIds : status[j] \in CollectionFailures =>
        /\ ~Written(j)
        /\ Parent(Dest(j)) \in fs.dirs =>
             \E k \in TaskIds \ {j} :
                /\ status[k] \in {"ok", "struct.error"}
                /\ Parent(Dest(k)) = Parent(Dest(j))

(* A task failed on a folder that holds files, none of them square. *)
C5_Witness ==
    /\ pc = "crashed"
    /\ status[cur] = "ValueError"
    /\ DOMAIN folder.files # {}

(***************************************************************************)
(* C6.  Once load_square_pngs has returned, each resolution met among the  *)
(* square files has exactly one frame, whose payload and bit depth are     *)
(* those of the last file of that resolution in sorted name order, the     *)
(* bit depth of a file being 32 with an alpha channel and 24 without.      *)
(***************************************************************************)
C6_LastWins ==
    Len(images) > 0 =>
        \A r \in Resolutions :
            LET same == {n \in SquareNames :
                            <<folder.files[n].width, folder.files[n].height>> = r}
                last == CHOOSE n \in same : \A m \in same : m <= n
                hits == {k \in 1..Len(images) : <<images[k].width, images[k].height>> = r}
            IN  /\ Cardinality(hits) = 1
                /\ \A k \in hits :
                     /\ images[k].data = folder.files[last]
                     /\ images[k].bit_count =
                            IF SourceHasAlpha(folder.files[last]) THEN 32 ELSE 24

(* The part of C6 about the payload alone. *)
C6_LastWinsPayload ==
    Len(images) > 0 =>
        \A r \in Resolutions :
            LET same == {n \in SquareNames :
                            <<folder.files[n].width, folder.files[n].height>> = r}
                last == CHOOSE n \in same : \A m \in same : m <= n
                hits == {k \in 1..Len(images) : <<images[k].width, images[k].height>> = r}
            IN  /\ Cardinality(hits) = 1
                /\ \A k \in hits : images[k].data = folder.files[last]

(***************************************************************************)
(* C7.  In every container written the frames of the directory are in      *)
(* strictly ascending width order, and that order is the order of the      *)
(* list load_square_pngs returned: entry k describes, and chunk k is, the  *)
(* payload of images[k].                                                   *)
(***************************************************************************)
C7_AscendingAsLoaded ==
    /\ \A j \in TaskIds : Written(j) =>
          \A k \in 1..(Len(Ico(j).chunks) - 1) :
              Ico(j).chunks[k].width < Ico(j).chunks[k + 1].width
    /\ pc = "wrote" =>
          /\ Len(Ico(cur).chunks) = Len(images)
          /\ \A k \in 1..Len(images) :
                /\ Ico(cur).chunks[k] = images[k].data
                /\ RdI(Ico(cur).header, 14 + 16 * (k - 1)) = images[k].data.len
                /\ RdH(Ico(cur).header, 12 + 16 * (k - 1)) = images[k].bit_count

(* A container of three frames has just been written. *)
C7_Witness ==
    /\ pc = "wrote"
    /\ Len(images) = 3

(***************************************************************************)
(* C8.  A container just written for a folder whose square files cover N   *)
(* distinct resolutions has count field N, a directory of exactly N        *)
(* entries of 16 bytes, and one payload per resolution.                    *)
(***************************************************************************)
C8_CountIsResolutions ==
    pc = "wrote" =>
        LET f == Ico(cur)
            N == Cardinality(Resolutions)
        IN  /\ RdH(f.header, 4) = N
            /\ Len(f.header) = 6 + 16 * N
            /\ Len(f.chunks) = N
            /\ \A r \in Resolutions :
                 Cardinality({k \in 1..N : <<f.chunks[k].width, f.chunks[k].height>> = r}) = 1

(* Written from a folder of three files: two of one resolution and a       *)
(* non-square one.                                                         *)
C8_Witness ==
    /\ pc = "wrote"
    /\ Cardinality(DOMAIN folder.files) = 3
    /\ Cardinality(SquareNames) = 2
    /\ Cardinality(Resolutions) = 1

(***************************************************************************)
(* C9.  No non-square file is ever in the frame set; the scan step on a    *)
(* non-square file leaves size_map, the status and the file system as      *)
(* they are and goes on to the next file; and a task fails with the        *)
(* empty-frame-set error only if its folder holds no square file.          *)
(***************************************************************************)
C9_SkipNonSquare ==
    /\ [](/\ \A key \in DOMAIN size_map :
                size_map[key].data.width = size_map[key].data.height
          /\ \A k \in 1..Len(images) : images[k].data.width = images[k].data.height
          /\ \A j \in TaskIds : status[j] = "ValueError" => SquareNames = {})
    /\ [][(/\ pc = "scan"
           /\ todo # <<>>
           /\ folder.files[Head(todo)].width # folder.files[Head(todo)].height)
          => (/\ size_map' = size_map
              /\ todo' = Tail(todo)
              /\ pc' = "scan"
              /\ status' = status
              /\ fs' = fs)]_vars

(* A container written from a folder whose second file is non-square and   *)
(* whose first and third are square.                                       *)
C9_Witness ==
    /\ pc = "wrote"
    /\ DOMAIN folder.files = {1, 2, 3}
    /\ folder.files[2].width # folder.files[2].height
    /\ {1, 3} \subseteq SquareNames

(***************************************************************************)
(* C10 as claimed.  write_ico raises no error of its own.                  *)
(***************************************************************************)
C10_NoSerializationError ==
    \A j \in TaskIds : status[j] # "struct.error"

(***************************************************************************)
(* C10 as amended.  write_ico completes exactly when the frame count fits  *)
(* 16 bits and every payload length and payload offset fits 32 bits, and   *)
(* then the count, length and offset fields hold the exact values;         *)
(* otherwise it raises struct.error with the parent directory made and     *)
(* the destination file not written.                                       *)
(***************************************************************************)
C10_PackLimits ==
    Len(images) > 0 =>
        LET N == Len(images)
            data == [k \in 1..N |-> images[k].data]
            off(k) == BigAdd(Big(6 + 16 * N), SumLens(data, k - 1))
            fits == /\ N < 65536
                    /\ \A k \in 1..N : data[k].len.hi < 65536 /\ off(k).hi < 65536
        IN  /\ pc = "wrote" <=> fits
            /\ (pc = "crashed" /\ status[cur] = "struct.error") <=> ~fits
            /\ fits =>
                 /\ Written(cur)
                 /\ RdH(Ico(cur).header, 4) = N
                 /\ \A k \in 1..N :
                      /\ RdI(Ico(cur).header, 14 + 16 * (k - 1)) = data[k].len
                      /\ RdI(Ico(cur).header, 18 + 16 * (k - 1)) = off(k)
            /\ ~fits => ~Written(cur) /\ Parent(Dest(cur)) \in fs.dirs

(* Three frames written, the last payload longer than 2^16 bytes. *)
C10_Witness ==
    /\ pc = "wrote"
    /\ Len(images) = 3
    /\ images[3].data.len.hi > 0

====
